---- MODULE Spec2Model ----
(***************************************************************************)
(* Model of python/trace-python.c (uftrace): the shared-memory symbol      *)
(* table (init_symtab, get_new_sym_addr, write_symtab), the per-process    *)
(* code_tree cache (convert_function_addr) and the trace function          *)
(* (uftrace_trace_python) with its destructor.                             *)
(*                                                                         *)
(* Bytes are one-character strings, NUL is the string "NUL".  A C string   *)
(* is a sequence of bytes without its terminator.  The shared memory is a  *)
(* function from byte offsets to bytes; the first HDRSZ bytes hold the     *)
(* header, which the model keeps as the record hdr.                        *)
(***************************************************************************)
EXTENDS Integers, Sequences, FiniteSets, TLC

\* ------------------------------------------------------------- bounds
\* The unit of the table (1 MiB in the source) scaled down so that growth
\* happens after a few entries.
SymtabUnit == 64
\* Direct get_new_sym_addr calls the processes make in all (SpecMP).
MaxCalls == 3
\* Hook calls one process makes (Spec).
MaxEvents == 4

\* ------------------------------------------------------------- constants
UFTRACE_PYTHON_SYMTAB_SIZE == SymtabUnit
UFTRACE_PYTHON_SYMTAB_HDRSZ == 48
\* addr(16) + spaces(2) + type(1) + newline(1)
EntryOverhead == 20

\* a traced process and a process forked from it
Procs == {"parent", "child"}

NUL == "NUL"
NULL == "NULL"

Min(a, b) == IF a < b THEN a ELSE b
Max(a, b) == IF a > b THEN a ELSE b

\* ------------------------------------------------------------- formatting
HexDigits == <<"0", "1", "2", "3", "4", "5", "6", "7",
               "8", "9", "a", "b", "c", "d", "e", "f">>
DecDigits == <<"0", "1", "2", "3", "4", "5", "6", "7", "8", "9">>

\* "%016x" of a 32-bit unsigned value: the upper eight digits are zero.
Hex16(n) ==
    [i \in 1..16 |-> IF i <= 8 THEN "0"
                     ELSE HexDigits[((n \div (16 ^ (16 - i))) % 16) + 1]]

\* "%u"
RECURSIVE FmtUnsigned(_)
FmtUnsigned(n) ==
    IF n < 10 THEN <<DecDigits[n + 1]>>
    ELSE FmtUnsigned(n \div 10) \o <<DecDigits[(n % 10) + 1]>>

\* "%*s" of the empty string: a negative width left-justifies in -width.
PadEmpty(width) ==
    [i \in 1..(IF width < 0 THEN 0 - width ELSE width) |-> " "]

\* FmtSymLine with the kind and the name in the wrong order: "%016x %s %c\n"
FmtSymLine_Swapped(addr, kind, name) ==
    Hex16(addr) \o <<" ">> \o name \o <<" ", kind, "\n">>

\* "%016x %c %s\n"
FmtSymLine(addr, kind, name) ==
    Hex16(addr) \o <<" ", kind, " ">> \o name \o <<"\n">>

\* snprintf(dst, size, ...): at most size-1 bytes of the text, then NUL.
Snprintf(size, text) ==
    SubSeq(text, 1, Min(Len(text), size - 1)) \o <<NUL>>

Strlen(s) == Len(s)

\* ------------------------------------------------------------- names
Repeat(c, n) == [i \in 1..n |-> c]

NameA == <<"a">>
\* a name whose entry is a little smaller than one unit of growth
NameMid == Repeat("m", UFTRACE_PYTHON_SYMTAB_SIZE - EntryOverhead - 4)
\* a name longer than one unit of growth
NameHuge == Repeat("h", UFTRACE_PYTHON_SYMTAB_SIZE + 6)

\* ------------------------------------------------------------- state
VARIABLES
    \* the shared memory object
    shmLinked,      \* the name /uftrace-python-PID exists
    shmSize,        \* size of the object (ftruncate)
    hdr,            \* symtab->val: [count, offset]
    mem,            \* bytes of the object from HDRSZ on
    \* the file system
    symfile,        \* contents of <dirname>/<name>.sym, or NoFile
    ioFail,         \* the output device rejects every further write
    \* the environment of the process tree
    envShmem,       \* UFTRACE_SHMEM is set
    \* per process (each process has its own copy of the globals)
    pc,             \* position of the process
    symtab,         \* the pointer symtab: NULL, "mapped" or "unmapped"
    uftrace_symtab_size,
    uftrace_shmem_fd,   \* "none", "open" or "closed"
    skip_first_frame,
    first_frame,
    code_tree,      \* set of [code, addr]
    cygprof_enter,  \* TRUE when resolved, FALSE when NULL
    cygprof_exit,
    cur,            \* locals of get_new_sym_addr in progress
    tr,             \* locals of uftrace_trace_python in progress
    fin,            \* locals of write_symtab in progress
    fault,          \* "none", or how the process went wrong
    \* observations
    hookLog,        \* calls made through cygprof_enter / cygprof_exit
    retval,         \* what the last uftrace_trace_python call returned
    nCalls,         \* direct get_new_sym_addr calls started by the process
    returned,       \* addresses get_new_sym_addr returned to the process
    resolved,       \* [code, addr]: what convert_function_addr returned for
                    \* which object, when it returned an address
    symLog          \* successful header swaps, in order

shmVars == <<shmLinked, shmSize, hdr, mem>>
fileVars == <<symfile, ioFail>>
procVars == <<symtab, uftrace_symtab_size, uftrace_shmem_fd>>
pyVars == <<skip_first_frame, first_frame, code_tree, cygprof_enter, cygprof_exit>>
obsVars == <<hookLog, retval, resolved>>
vars == <<shmLinked, shmSize, hdr, mem, symfile, ioFail, envShmem, pc, symtab,
          uftrace_symtab_size, uftrace_shmem_fd, skip_first_frame, first_frame,
          code_tree, cygprof_enter, cygprof_exit, cur, tr, fin, fault,
          hookLog, retval, nCalls, returned, resolved, symLog>>

NoFile == <<"NoFile">>
Hdr(c, o) == [count |-> c, offset |-> o]
NoCur == [name |-> <<>>, is_pyfunc |-> FALSE, old_hdr |-> Hdr(0, 0),
          new_hdr |-> Hdr(0, 0), caller |-> "none"]
NoTr == [frame |-> NULL, event |-> "none", code |-> NULL, object |-> NULL]
NoFin == [len |-> 0, buf |-> 0, pos |-> 0]

\* ------------------------------------------------------------- shared memory
\* ftruncate(fd, size): bytes below the old size are kept, new bytes are zero,
\* bytes at or above the new size are gone.
Ftruncate(m, size) ==
    [a \in UFTRACE_PYTHON_SYMTAB_HDRSZ..(size - 1) |->
        IF a \in DOMAIN m THEN m[a] ELSE NUL]

\* A process can touch offset a when its mapping covers it and the object is
\* that large (the sizes are multiples of the page size in the source).
Accessible(p, a) == a < uftrace_symtab_size[p] /\ a < shmSize

\* Number of leading bytes of [off, off+n) the process can touch.
AccessiblePrefix(p, off, n) ==
    Max(0, Min(n, Min(uftrace_symtab_size[p], shmSize) - off))

\* The first k bytes of text stored at off.
MemWrite(m, off, text, k) ==
    [a \in DOMAIN m |-> IF a >= off /\ a < off + k THEN text[a - off + 1] ELSE m[a]]

\* The bytes [lo, hi) of the object.
MemRead(m, lo, hi) == [i \in 1..(hi - lo) |-> m[lo + i - 1]]

\* init_symtab()
InitSymtab(p) ==
    /\ shmLinked' = TRUE
    /\ shmSize' = UFTRACE_PYTHON_SYMTAB_SIZE
    /\ mem' = Ftruncate(<<>>, UFTRACE_PYTHON_SYMTAB_SIZE)
    /\ hdr' = Hdr(0, UFTRACE_PYTHON_SYMTAB_HDRSZ)
    /\ symtab' = [symtab EXCEPT ![p] = "mapped"]
    /\ uftrace_shmem_fd' = [uftrace_shmem_fd EXCEPT ![p] = "open"]
    /\ uftrace_symtab_size' = [uftrace_symtab_size EXCEPT ![p] = UFTRACE_PYTHON_SYMTAB_SIZE]

\* ------------------------------------------------------------- faults
\* What touching offset a does to a process that cannot touch it: inside the
\* mapping but past the end of the object the kernel sends SIGBUS; outside the
\* mapping the behaviour is undefined: the process is killed (SIGSEGV) or the
\* access lands in whatever else is mapped there and the process goes on.
FaultOutcomes(p, a) ==
    IF a >= uftrace_symtab_size[p] THEN {"sigsegv", "stray"} ELSE {"sigbus"}

Crash(p, how) ==
    /\ pc' = [pc EXCEPT ![p] = "crashed"]
    /\ fault' = [fault EXCEPT ![p] = how]

\* ------------------------------------------------------------- get_new_sym_addr
EntrySize(name) == Strlen(name) + EntryOverhead

\* lines 165-171: the locals and the first read of the header.  A process that
\* never mapped the table reads through a NULL pointer.
AllocBegin(p, name, is_pyfunc, caller) ==
    IF symtab[p] = "mapped"
    THEN /\ cur' = [cur EXCEPT ![p] = [name |-> name, is_pyfunc |-> is_pyfunc,
                                      old_hdr |-> hdr, new_hdr |-> Hdr(0, 0),
                                      caller |-> caller]]
         /\ pc' = [pc EXCEPT ![p] = "cas"]
         /\ fault' = fault
    ELSE /\ cur' = cur
         /\ Crash(p, "null_symtab")

\* lines 596-598: a direct call, as the unit test makes it
CallAlloc(p, name, is_pyfunc) ==
    /\ pc[p] = "idle"
    /\ nCalls["parent"] + nCalls["child"] < MaxCalls
    /\ nCalls' = [nCalls EXCEPT ![p] = @ + 1]
    /\ AllocBegin(p, name, is_pyfunc, "test")
    /\ UNCHANGED <<shmVars, fileVars, envShmem, procVars, pyVars, tr, fin,
                   obsVars, returned, symLog>>

\* AllocCas with a swap that advances the count and leaves the offset
AllocCas_KeepOffset(p) ==
    /\ pc[p] = "cas"
    /\ LET old == cur[p].old_hdr
           new == Hdr(old.count + 1, old.offset)
       IN IF hdr = old
          THEN /\ hdr' = new
               /\ cur' = [cur EXCEPT ![p].new_hdr = new]
               /\ symLog' = Append(symLog, [proc |-> p, addr |-> new.count,
                                            off |-> old.offset,
                                            size |-> EntrySize(cur[p].name),
                                            name |-> cur[p].name,
                                            is_pyfunc |-> cur[p].is_pyfunc])
               /\ pc' = [pc EXCEPT ![p] = "write"]
          ELSE /\ hdr' = hdr
               /\ cur' = [cur EXCEPT ![p].old_hdr = hdr]
               /\ symLog' = symLog
               /\ pc' = pc
    /\ UNCHANGED <<shmLinked, shmSize, mem, fileVars, envShmem, procVars, pyVars,
                   tr, fin, fault, obsVars, nCalls, returned>>

\* AllocCas with a plain store in place of the compare-and-swap
AllocCas_NoCompare(p) ==
    /\ pc[p] = "cas"
    /\ LET old == cur[p].old_hdr
           new == Hdr(old.count + 1, old.offset + EntrySize(cur[p].name))
       IN /\ hdr' = new
          /\ cur' = [cur EXCEPT ![p].new_hdr = new]
          /\ symLog' = Append(symLog, [proc |-> p, addr |-> new.count,
                                       off |-> old.offset,
                                       size |-> EntrySize(cur[p].name),
                                       name |-> cur[p].name,
                                       is_pyfunc |-> cur[p].is_pyfunc])
          /\ pc' = [pc EXCEPT ![p] =
                       IF new.offset >= uftrace_symtab_size[p]
                       THEN "grow" ELSE "write"]
    /\ UNCHANGED <<shmLinked, shmSize, mem, fileVars, envShmem, procVars, pyVars,
                   tr, fin, fault, obsVars, nCalls, returned>>

\* lines 174-184: one round of the loop.  After a successful swap the test of
\* line 186 picks the next step.
AllocCas(p) ==
    /\ pc[p] = "cas"
    /\ LET old == cur[p].old_hdr
           new == Hdr(old.count + 1, old.offset + EntrySize(cur[p].name))
       IN IF hdr = old
          THEN /\ hdr' = new
               /\ cur' = [cur EXCEPT ![p].new_hdr = new]
               /\ symLog' = Append(symLog, [proc |-> p, addr |-> new.count,
                                            off |-> old.offset,
                                            size |-> EntrySize(cur[p].name),
                                            name |-> cur[p].name,
                                            is_pyfunc |-> cur[p].is_pyfunc])
               /\ pc' = [pc EXCEPT ![p] =
                            IF new.offset >= uftrace_symtab_size[p]
                            THEN "grow" ELSE "write"]
          ELSE /\ hdr' = hdr
               /\ cur' = [cur EXCEPT ![p].old_hdr = hdr]
               /\ symLog' = symLog
               /\ pc' = pc
    /\ UNCHANGED <<shmLinked, shmSize, mem, fileVars, envShmem, procVars, pyVars,
                   tr, fin, fault, obsVars, nCalls, returned>>

\* lines 186-204: ftruncate to the new size, mremap, update the size
AllocGrow(p) ==
    /\ pc[p] = "grow"
    /\ LET new_symtab_size == uftrace_symtab_size[p] + UFTRACE_PYTHON_SYMTAB_SIZE
       IN /\ shmSize' = new_symtab_size
          /\ mem' = Ftruncate(mem, new_symtab_size)
          /\ uftrace_symtab_size' = [uftrace_symtab_size EXCEPT ![p] = new_symtab_size]
    /\ pc' = [pc EXCEPT ![p] = "write"]
    /\ UNCHANGED <<shmLinked, hdr, fileVars, envShmem, symtab, uftrace_shmem_fd,
                   pyVars, cur, tr, fin, fault, obsVars, nCalls, returned, symLog>>

\* ------------------------------------------------------------- python objects
\* Strings the interpreter hands out.
S_main == <<"_", "_", "m", "a", "i", "n", "_", "_">>
S_module == <<"<", "m", "o", "d", "u", "l", "e", ">">>
S_mymod == <<"m", "y", "m", "o", "d">>
S_foo == <<"f", "o", "o">>
S_len == <<"l", "e", "n">>
S_builtins == <<"b", "u", "i", "l", "t", "i", "n", "s">>
S_sym_end == <<"_", "_", "s", "y", "m", "_", "e", "n", "d">>
NullStr == <<NULL>>
NotAString == <<"NotAString">>

\* Code objects: co_qualname is NULL when the attribute does not exist.
CodeObjs ==
    [ code_foo  |-> [co_qualname |-> S_foo, co_name |-> S_foo],
      code_foo2 |-> [co_qualname |-> NullStr, co_name |-> S_foo],
      code_mod  |-> [co_qualname |-> S_module, co_name |-> S_module] ]

\* Frames: f_code is the identity of a code object, mod is f_globals["__name__"]
\* (NULL when f_globals or the key is missing).
FrameObjs ==
    [ frame_root |-> [f_code |-> "code_mod", mod |-> S_main],
      frame_a    |-> [f_code |-> "code_foo", mod |-> S_mymod],
      frame_b    |-> [f_code |-> "code_foo2", mod |-> S_mymod] ]

\* Arguments of c_call events: builtin functions and one object that is no
\* PyCFunction.
CFuncObjs ==
    [ cfunc_len  |-> [is_cfunction |-> TRUE, qualname |-> S_len, m_module |-> S_builtins],
      not_cfunc  |-> [is_cfunction |-> FALSE, qualname |-> S_foo, m_module |-> NullStr] ]

Frames == DOMAIN FrameObjs
CFuncs == DOMAIN CFuncObjs
EventNames == {"call", "c_call", "return", "c_return", "c_exception", "line"}

IsString(x) == x # NullStr /\ x # NotAString

\* get_python_funcname(frame, code)
get_python_funcname(frame, code) ==
    LET c == CodeObjs[code]
        name == IF c.co_qualname # NullStr THEN c.co_qualname ELSE c.co_name
        mod == FrameObjs[frame].mod
    IN IF name = NullStr THEN NullStr
       ELSE IF IsString(mod) /\ (mod # S_main \/ name = S_module)
            THEN mod \o <<".">> \o name
            ELSE name

\* a name function that names every object, PyCFunction or not
get_c_funcname_Always(frame, code) ==
    LET c == CFuncObjs[code]
    IN IF IsString(c.m_module)
       THEN c.m_module \o <<".">> \o c.qualname
       ELSE S_builtins \o <<".">> \o c.qualname

\* get_c_funcname(frame, code)
get_c_funcname(frame, code) ==
    LET c == CFuncObjs[code]
    IN IF ~c.is_cfunction THEN NullStr
       ELSE IF IsString(c.m_module)
            THEN c.m_module \o <<".">> \o c.qualname
            ELSE S_builtins \o <<".">> \o c.qualname

\* a search that never finds a node
TreeSearch_Never(tree, code) == [found |-> FALSE, addr |-> 0]

\* a search that takes any node of a tree that has one for the node sought
TreeSearch_Any(tree, code) ==
    IF tree # {}
    THEN [found |-> TRUE, addr |-> (CHOOSE n \in tree : TRUE).addr]
    ELSE [found |-> FALSE, addr |-> 0]

\* lines 492-506: the search of the tree for the node whose code is this
\* object, by comparing the pointers
TreeSearch(tree, code) ==
    IF \E n \in tree : n.code = code
    THEN [found |-> TRUE, addr |-> (CHOOSE n \in tree : n.code = code).addr]
    ELSE [found |-> FALSE, addr |-> 0]

\* rb_link_node + rb_insert_color
TreeInsert(tree, code, addr) == tree \cup {[code |-> code, addr |-> addr]}

\* lines 483-490: the object whose identity keys the cache (f_code is NULL when
\* the frame has no f_code attribute)
CodeOf(frame, is_pyfunc, args) ==
    IF FrameObjs[frame].f_code = NULL THEN NULL
    ELSE IF is_pyfunc THEN FrameObjs[frame].f_code ELSE args

\* the classification without the branch of c_exception
EventClass_NoException(event) ==
    IF event \in {"call", "c_call"} THEN "enter"
    ELSE IF event \in {"return", "c_return"} THEN "exit"
    ELSE "other"

\* lines 547-560: what the event name makes of the event
EventClass(event) ==
    IF event \in {"call", "c_call"} THEN "enter"
    ELSE IF event \in {"return", "c_return", "c_exception"} THEN "exit"
    ELSE "other"

\* no frame is skipped
SkipFrame_Never(skip, frame, first) == FALSE

\* lines 543-545: skip the first frame
SkipFrame(skip, frame, first) == skip /\ frame = first

\* a trace function that returns None
get_trace_function_None == "None"

\* get_trace_function(): the module is registered with the interpreter for as
\* long as its trace method can be called, so the lookup finds it.
get_trace_function == "trace_func"

\* ------------------------------------------------------------- hooks
\* A call through cygprof_enter or cygprof_exit.  A call through a pointer
\* that was never resolved jumps to address 0.
HookCall(p, fn, child, how) ==
    LET ok == IF fn = "enter" THEN cygprof_enter[p] ELSE cygprof_exit[p]
    IN /\ hookLog' = [hookLog EXCEPT ![p] =
                        Append(@, [fn |-> fn, child |-> child, parent |-> 0,
                                   resolved |-> ok])]
       /\ IF ok
          THEN /\ pc' = [pc EXCEPT ![p] = "idle"]
               /\ retval' = [retval EXCEPT ![p] = get_trace_function]
               /\ fault' = [fault EXCEPT ![p] = how]
          ELSE /\ retval' = retval
               /\ Crash(p, "null_hook")

\* What follows the return of get_new_sym_addr in its caller: the unit test
\* takes the address; convert_function_addr (lines 516-526) links the new node
\* and uftrace_trace_python (line 552) calls the hook.
AfterAlloc(p, addr, how) ==
    /\ returned' = [returned EXCEPT ![p] = Append(@, addr)]
    /\ cur' = [cur EXCEPT ![p] = NoCur]
    /\ tr' = [tr EXCEPT ![p] = NoTr]
    /\ IF cur[p].caller = "test"
       THEN /\ pc' = [pc EXCEPT ![p] = "idle"]
            /\ fault' = [fault EXCEPT ![p] = how]
            /\ UNCHANGED <<code_tree, hookLog, retval, resolved>>
       ELSE /\ code_tree' = [code_tree EXCEPT ![p] = TreeInsert(@, tr[p].code, addr)]
            /\ resolved' = [resolved EXCEPT ![p] = @ \cup
                                {[code |-> tr[p].object, addr |-> addr]}]
            /\ HookCall(p, "enter", addr, how)

\* lines 206-209: format the entry at the reserved offset and return the count
AllocWrite(p) ==
    /\ pc[p] = "write"
    /\ LET c == cur[p]
           entry_size == EntrySize(c.name)
           text == Snprintf(entry_size + 1,
                            FmtSymLine(c.new_hdr.count,
                                       IF c.is_pyfunc THEN "T" ELSE "t", c.name))
           off == c.old_hdr.offset
           k == AccessiblePrefix(p, off, Len(text))
       IN /\ mem' = MemWrite(mem, off, text, k)
          /\ IF k = Len(text)
             THEN AfterAlloc(p, c.new_hdr.count, fault[p])
             ELSE \E how \in FaultOutcomes(p, off + k) :
                    IF how = "stray"
                    THEN AfterAlloc(p, c.new_hdr.count, "stray")
                    ELSE /\ Crash(p, how)
                         /\ UNCHANGED <<returned, cur, tr, code_tree, hookLog, retval,
                                        resolved>>
    /\ UNCHANGED <<shmLinked, shmSize, hdr, fileVars, envShmem, procVars,
                   skip_first_frame, first_frame, cygprof_enter, cygprof_exit,
                   fin, nCalls, symLog>>

\* ------------------------------------------------------------- module init
SYM_ENTER == "__cyg_profile_func_enter"
SYM_EXIT == "__cyg_profile_func_exit"
\* What /proc/self/maps and the ELF symbol table can show: no libmcount (or an
\* unreadable one), or a libmcount with any part of the two symbols.
LibChoices == {{NULL}} \cup SUBSET {SYM_ENTER, SYM_EXIT}

\* PyInit_uftrace_python (the HAVE_LIBPYTHON3 build) with init_uftrace,
\* init_symtab and find_libmcount_funcs
ModuleInit(p) ==
    /\ pc[p] = "load"
    /\ \E lib \in LibChoices :
        /\ skip_first_frame' = [skip_first_frame EXCEPT ![p] = TRUE]
        /\ IF envShmem
           THEN /\ InitSymtab(p)
                /\ cygprof_enter' = [cygprof_enter EXCEPT ![p] = SYM_ENTER \in lib]
                /\ cygprof_exit' = [cygprof_exit EXCEPT ![p] = SYM_EXIT \in lib]
           ELSE UNCHANGED <<shmVars, procVars, cygprof_enter, cygprof_exit>>
    /\ pc' = [pc EXCEPT ![p] = "idle"]
    /\ UNCHANGED <<fileVars, envShmem, first_frame, code_tree, cur, tr, fin, fault,
                   obsVars, nCalls, returned, symLog>>

\* lines 591-595 of the unit test: init_uftrace() without UFTRACE_SHMEM, then
\* init_symtab()
TestInit(p) ==
    /\ pc[p] = "load"
    /\ ~envShmem
    /\ InitSymtab(p)
    /\ pc' = [pc EXCEPT ![p] = "idle"]
    /\ UNCHANGED <<fileVars, envShmem, pyVars, cur, tr, fin, fault, obsVars,
                   nCalls, returned, symLog>>

\* fork(): the child starts with a copy of the parent's globals and shares the
\* mapping.
Fork(p, c) ==
    /\ pc[p] = "idle"
    /\ pc[c] = "unborn"
    /\ pc' = [pc EXCEPT ![c] = "idle"]
    /\ symtab' = [symtab EXCEPT ![c] = symtab[p]]
    /\ uftrace_symtab_size' = [uftrace_symtab_size EXCEPT ![c] = uftrace_symtab_size[p]]
    /\ uftrace_shmem_fd' = [uftrace_shmem_fd EXCEPT ![c] = uftrace_shmem_fd[p]]
    /\ skip_first_frame' = [skip_first_frame EXCEPT ![c] = skip_first_frame[p]]
    /\ first_frame' = [first_frame EXCEPT ![c] = first_frame[p]]
    /\ code_tree' = [code_tree EXCEPT ![c] = code_tree[p]]
    /\ cygprof_enter' = [cygprof_enter EXCEPT ![c] = cygprof_enter[p]]
    /\ cygprof_exit' = [cygprof_exit EXCEPT ![c] = cygprof_exit[p]]
    /\ UNCHANGED <<shmVars, fileVars, envShmem, cur, tr, fin, fault, obsVars,
                   nCalls, returned, symLog>>

\* ------------------------------------------------------------- the trace function
\* uftrace_trace_python(self, args) with convert_function_addr, up to the call
\* of get_new_sym_addr; parsed is the result of PyArg_ParseTuple.
TraceEvent(p, parsed, frame, event, arg) ==
    /\ pc[p] = "idle"
    /\ Len(hookLog[p]) < MaxEvents
    /\ LET first == IF first_frame[p] = NULL THEN frame ELSE first_frame[p]
           is_pyfunc == event = "call"
           code == CodeOf(frame, is_pyfunc, arg)
           found == TreeSearch(code_tree[p], code)
           func_name == IF is_pyfunc THEN get_python_funcname(frame, code)
                        ELSE get_c_funcname(frame, code)
           Return(v) == /\ retval' = [retval EXCEPT ![p] = v]
                        /\ UNCHANGED <<pc, fault, hookLog, cur, tr, resolved>>
       IN IF ~parsed
          THEN /\ Return("None")
               /\ first_frame' = first_frame
          ELSE /\ first_frame' = [first_frame EXCEPT ![p] = first]
               /\ IF SkipFrame(skip_first_frame[p], frame, first)
                  THEN Return("None")
                  ELSE IF EventClass(event) = "enter"
                  THEN IF code = NULL
                       THEN /\ HookCall(p, "enter", 0, fault[p])
                            /\ UNCHANGED <<cur, tr, resolved>>
                       ELSE IF found.found
                       THEN /\ HookCall(p, "enter", found.addr, fault[p])
                            /\ resolved' = [resolved EXCEPT ![p] = @ \cup
                                  {[code |-> IF is_pyfunc THEN FrameObjs[frame].f_code
                                             ELSE arg,
                                    addr |-> found.addr]}]
                            /\ UNCHANGED <<cur, tr>>
                       ELSE IF func_name = NullStr
                       THEN /\ HookCall(p, "enter", 0, fault[p])
                            /\ UNCHANGED <<cur, tr, resolved>>
                       ELSE /\ AllocBegin(p, func_name, is_pyfunc, "trace")
                            /\ tr' = [tr EXCEPT ![p] =
                                        [frame |-> frame, event |-> event, code |-> code,
                                         object |-> IF is_pyfunc
                                                    THEN FrameObjs[frame].f_code
                                                    ELSE arg]]
                            /\ UNCHANGED <<hookLog, retval, resolved>>
                  ELSE IF EventClass(event) = "exit"
                  THEN /\ HookCall(p, "exit", 0, fault[p])
                       /\ UNCHANGED <<cur, tr, resolved>>
                  ELSE Return(get_trace_function)
    /\ UNCHANGED <<shmVars, fileVars, envShmem, procVars, skip_first_frame,
                   code_tree, cygprof_enter, cygprof_exit, fin, nCalls, returned,
                   symLog>>

\* ------------------------------------------------------------- write_symtab
UFTRACE_PYTHON_SYMTAB_NAME ==
    <<"p", "y", "t", "h", "o", "n", ".", "f", "a", "k", "e">>
S_symbols == <<"#", " ", "s", "y", "m", "b", "o", "l", "s", ":", " ">>
S_pathname == <<"#", " ", "p", "a", "t", "h", " ", "n", "a", "m", "e", ":", " ">>
GARBAGE == "GARBAGE"

\* lines 231-233: the three fprintf calls of the header comment
HeaderComment(count) ==
    LET l1 == S_symbols \o FmtUnsigned(count) \o <<"\n">>
        l2 == S_pathname \o UFTRACE_PYTHON_SYMTAB_NAME \o <<"\n">>
        len == Len(l1) + Len(l2)
    IN l1 \o l2 \o <<"#">> \o PadEmpty(UFTRACE_PYTHON_SYMTAB_HDRSZ - 2 - len) \o <<"\n">>

\* a write of bytes at position pos of a file
FileWrite(f, pos, bytes) ==
    LET base == IF f = NoFile THEN <<>> ELSE f
    IN [i \in 1..Max(Len(base), pos + Len(bytes)) |->
          IF i > pos /\ i <= pos + Len(bytes) THEN bytes[i - pos]
          ELSE IF i <= Len(base) THEN base[i] ELSE NUL]

\* what one fwrite(buf, 1, len, fp) can return: nothing, everything, or (in
\* the first round) a part
FwriteSizes(f) ==
    {0, f.len} \cup (IF f.buf = UFTRACE_PYTHON_SYMTAB_HDRSZ
                     THEN {(f.len + 1) \div 2} ELSE {})

\* lines 212-233 (called from the destructor, lines 565-574, or from the unit
\* test): fopen, which opened says succeeded or not, then the header comment
\* with symtab->count
FinOpen(p, opened) ==
    /\ pc[p] = "idle"
    /\ IF ~opened
       THEN /\ pc' = [pc EXCEPT ![p] = "exited"]
            /\ UNCHANGED <<symfile, fin, fault>>
       ELSE IF symtab[p] # "mapped"
       THEN /\ symfile' = <<>>
            /\ Crash(p, "null_symtab")
            /\ fin' = fin
       ELSE /\ symfile' = HeaderComment(hdr.count)
            /\ fin' = [fin EXCEPT ![p] = [len |-> 0, buf |-> 0,
                                         pos |-> Len(HeaderComment(hdr.count))]]
            /\ pc' = [pc EXCEPT ![p] = "fin_len"]
            /\ fault' = fault
    /\ UNCHANGED <<shmVars, ioFail, envShmem, procVars, pyVars, cur, tr, obsVars,
                   nCalls, returned, symLog>>

\* lines 239-242: the length of the copy from symtab->offset
FinLen(p) ==
    /\ pc[p] = "fin_len"
    /\ LET len == hdr.offset - UFTRACE_PYTHON_SYMTAB_HDRSZ
       IN /\ fin' = [fin EXCEPT ![p].len = len, ![p].buf = UFTRACE_PYTHON_SYMTAB_HDRSZ]
          /\ pc' = [pc EXCEPT ![p] = IF len = 0 THEN "fin_end" ELSE "fin_copy"]
    /\ UNCHANGED <<shmVars, fileVars, envShmem, procVars, pyVars, cur, tr, fault,
                   obsVars, nCalls, returned, symLog>>

\* lines 242-250: one round of the copy loop in which fwrite returns size.
\* fwrite returns a size_t, so the test size < 0 never holds and a failed write
\* only repeats the loop.
FinCopy(p, size) ==
    /\ pc[p] = "fin_copy"
    /\ size \in FwriteSizes(fin[p])
    /\  /\ ioFail => size = 0
        /\ ioFail' = (ioFail \/ size = 0)
        /\ LET buf == fin[p].buf
               k == AccessiblePrefix(p, buf, size)
               good == MemRead(mem, buf, buf + k)
               left == fin[p].len - size
               Copied(bytes) ==
                   /\ symfile' = (IF size = 0 THEN symfile
                                  ELSE FileWrite(symfile, fin[p].pos, bytes))
                   /\ fin' = [fin EXCEPT ![p] = [len |-> left, buf |-> buf + size,
                                                pos |-> @.pos + size]]
                   /\ pc' = [pc EXCEPT ![p] = IF left = 0 THEN "fin_end" ELSE "fin_copy"]
           IN IF k = size
              THEN /\ Copied(good)
                   /\ fault' = fault
              ELSE \E how \in FaultOutcomes(p, buf + k) :
                     IF how = "stray"
                     THEN /\ Copied(good \o [i \in 1..(size - k) |-> GARBAGE])
                          /\ fault' = [fault EXCEPT ![p] = "stray"]
                     ELSE /\ Crash(p, how)
                          /\ UNCHANGED <<symfile, fin>>
    /\ UNCHANGED <<shmVars, envShmem, procVars, pyVars, cur, tr, obsVars, nCalls,
                   returned, symLog>>

\* lines 252-258: the sentinel with symtab->count + 1, fclose, munmap, close
\* and uftrace_shmem_unlink
FinEnd(p) ==
    /\ pc[p] = "fin_end"
    /\ symfile' = FileWrite(symfile, fin[p].pos, FmtSymLine(hdr.count + 1, "?", S_sym_end))
    /\ fin' = [fin EXCEPT ![p] = NoFin]
    /\ symtab' = [symtab EXCEPT ![p] = "unmapped"]
    /\ uftrace_shmem_fd' = [uftrace_shmem_fd EXCEPT ![p] = "closed"]
    /\ shmLinked' = FALSE
    /\ pc' = [pc EXCEPT ![p] = "exited"]
    /\ UNCHANGED <<shmSize, hdr, mem, ioFail, envShmem, uftrace_symtab_size, pyVars,
                   cur, tr, fault, obsVars, nCalls, returned, symLog>>

\* ------------------------------------------------------------- specifications
\* the symbols the direct calls register
TestSyms == {[name |-> NameA, is_pyfunc |-> TRUE],
             [name |-> NameMid, is_pyfunc |-> TRUE],
             [name |-> NameHuge, is_pyfunc |-> FALSE]}

Init ==
    /\ shmLinked = FALSE
    /\ shmSize = 0
    /\ hdr = Hdr(0, 0)
    /\ mem = <<>>
    /\ symfile = NoFile
    /\ ioFail = FALSE
    /\ envShmem \in BOOLEAN
    /\ pc = [p \in Procs |-> IF p = "parent" THEN "load" ELSE "unborn"]
    /\ symtab = [p \in Procs |-> NULL]
    /\ uftrace_symtab_size = [p \in Procs |-> 0]
    /\ uftrace_shmem_fd = [p \in Procs |-> "none"]
    /\ skip_first_frame = [p \in Procs |-> FALSE]
    /\ first_frame = [p \in Procs |-> NULL]
    /\ code_tree = [p \in Procs |-> {}]
    /\ cygprof_enter = [p \in Procs |-> FALSE]
    /\ cygprof_exit = [p \in Procs |-> FALSE]
    /\ cur = [p \in Procs |-> NoCur]
    /\ tr = [p \in Procs |-> NoTr]
    /\ fin = [p \in Procs |-> NoFin]
    /\ fault = [p \in Procs |-> "none"]
    /\ hookLog = [p \in Procs |-> <<>>]
    /\ retval = [p \in Procs |-> "unset"]
    /\ nCalls = [p \in Procs |-> 0]
    /\ returned = [p \in Procs |-> <<>>]
    /\ resolved = [p \in Procs |-> {}]
    /\ symLog = <<>>

\* One traced process: module initialisation, the events the interpreter
\* delivers, and the destructor at exit.
Next ==
    \/ ModuleInit("parent")
    \/ \E parsed \in BOOLEAN, frame \in Frames, event \in EventNames, arg \in CFuncs :
          TraceEvent("parent", parsed, frame, event, arg)
    \/ AllocCas("parent")
    \/ AllocGrow("parent")
    \/ AllocWrite("parent")
    \/ \E opened \in BOOLEAN : FinOpen("parent", opened)
    \/ FinLen("parent")
    \/ \E size \in FwriteSizes(fin["parent"]) : FinCopy("parent", size)
    \/ FinEnd("parent")

Spec == Init /\ [][Next]_vars

\* The same process when it is never stopped for good: a process that can take
\* a step that changes its state takes one.
SpecFair == Spec /\ WF_vars(Next)

\* The registry driven directly, as the unit test drives it, by a process and
\* the child it forks; the symbol file can be opened and written.
InitMP == Init /\ ~envShmem

NextMP ==
    \/ TestInit("parent")
    \/ Fork("parent", "child")
    \/ \E p \in Procs, s \in TestSyms : CallAlloc(p, s.name, s.is_pyfunc)
    \/ \E p \in Procs : AllocCas(p)
    \/ \E p \in Procs : AllocGrow(p)
    \/ \E p \in Procs : AllocWrite(p)
    \/ \E p \in Procs : FinOpen(p, TRUE)
    \/ \E p \in Procs : FinLen(p)
    \/ \E p \in Procs : FinCopy(p, fin[p].len)
    \/ \E p \in Procs : FinEnd(p)

SpecMP == InitMP /\ [][NextMP]_vars

\* Concurrent callers of get_new_sym_addr alone, with entries smaller than one
\* unit of growth, under a fair scheduler: a process inside get_new_sym_addr
\* is not stopped for good.
SmallSyms == {s \in TestSyms : EntrySize(s.name) < UFTRACE_PYTHON_SYMTAB_SIZE}

NextAlloc ==
    \/ TestInit("parent")
    \/ Fork("parent", "child")
    \/ \E p \in Procs, s \in SmallSyms : CallAlloc(p, s.name, s.is_pyfunc)
    \/ \E p \in Procs : AllocCas(p)
    \/ \E p \in Procs : AllocGrow(p)
    \/ \E p \in Procs : AllocWrite(p)

SpecAllocFair ==
    /\ InitMP
    /\ [][NextAlloc]_vars
    /\ \A p \in Procs : WF_vars(AllocCas(p) \/ AllocGrow(p) \/ AllocWrite(p))

\* ------------------------------------------------------------- claims
SeqRange(q) == {q[i] : i \in DOMAIN q}
ReturnedAddrs == UNION {SeqRange(returned[p]) : p \in Procs}
NumReturned == Len(returned["parent"]) + Len(returned["child"])
NumCalls == nCalls["parent"] + nCalls["child"]

\* C1: whatever the interleaving of the get_new_sym_addr calls of the processes
\* that share the table, the addresses returned are pairwise distinct; once
\* all N calls have returned they are exactly 1..N; and the k-th call of a
\* process that runs alone on a fresh table returns k.
C1_AddressesDistinctContiguous ==
    /\ Cardinality(ReturnedAddrs) = NumReturned
    /\ NumReturned = NumCalls => ReturnedAddrs = 1..NumCalls
    /\ pc["child"] = "unborn" =>
          \A k \in DOMAIN returned["parent"] : returned["parent"][k] = k

\* C1 witness: three calls of two processes have returned, interleaved
C1_Witness ==
    /\ returned["parent"] = <<1, 3>>
    /\ returned["child"] = <<2>>

\* ---- what a line of the symbol file looks like, read back from its bytes
IsHexDigit(c) == \E v \in 0..15 : HexDigits[v + 1] = c
HexDigitVal(c) == CHOOSE v \in 0..15 : HexDigits[v + 1] = c

RECURSIVE HexVal(_)
HexVal(s) ==
    IF s = <<>> THEN 0
    ELSE 16 * HexVal(SubSeq(s, 1, Len(s) - 1)) + HexDigitVal(s[Len(s)])

\* bytes is "<16 hex digits of addr> <kind> <name>\n"
WellFormedLine(bytes, addr, kind, name) ==
    /\ Len(bytes) = 20 + Len(name)
    /\ \A i \in 1..16 : IsHexDigit(bytes[i])
    /\ \A i \in 1..9 : bytes[i] = "0"
    /\ HexVal(SubSeq(bytes, 10, 16)) = addr
    /\ bytes[17] = " "
    /\ bytes[18] = kind
    /\ bytes[19] = " "
    /\ SubSeq(bytes, 20, 19 + Len(name)) = name
    /\ bytes[20 + Len(name)] = "\n"

KindChar(is_pyfunc) == IF is_pyfunc THEN "T" ELSE "t"

\* the bytes the table holds for an entry are the entry's line
EntryIntact(e) ==
    /\ e.off + e.size <= shmSize
    /\ WellFormedLine(MemRead(mem, e.off, e.off + e.size), e.addr,
                      KindChar(e.is_pyfunc), e.name)

\* the end of the last entry the header swaps reserved
EndOffset ==
    IF symLog = <<>> THEN UFTRACE_PYTHON_SYMTAB_HDRSZ
    ELSE symLog[Len(symLog)].off + symLog[Len(symLog)].size

\* the file is the 48-byte header comment, the lines of entries 1..N in
\* order, each where the table has it, and one sentinel line
FileWellFormed ==
    LET N == Len(symLog)
    IN /\ symfile # NoFile
       /\ Len(symfile) = EndOffset + 20 + Len(S_sym_end)
       /\ Len(HeaderComment(N)) = UFTRACE_PYTHON_SYMTAB_HDRSZ
       /\ SubSeq(symfile, 1, UFTRACE_PYTHON_SYMTAB_HDRSZ) = HeaderComment(N)
       /\ \A i \in 1..N :
            /\ symLog[i].addr = i
            /\ symLog[i].off = (IF i = 1 THEN UFTRACE_PYTHON_SYMTAB_HDRSZ
                                ELSE symLog[i - 1].off + symLog[i - 1].size)
            /\ WellFormedLine(SubSeq(symfile, symLog[i].off + 1,
                                     symLog[i].off + symLog[i].size),
                              i, KindChar(symLog[i].is_pyfunc), symLog[i].name)
       /\ WellFormedLine(SubSeq(symfile, EndOffset + 1, Len(symfile)),
                         N + 1, "?", S_sym_end)

\* C2: in one process, whatever the sizes of the entries and however often the
\* table grew, every entry get_new_sym_addr has returned is still intact in
\* the table, and the file write_symtab produces holds all N entries,
\* contiguous and well-formed.
C2_GrowthKeepsEntries ==
    pc["child"] = "unborn" =>
        /\ \A i \in DOMAIN symLog :
              symLog[i].addr \in SeqRange(returned["parent"]) => EntryIntact(symLog[i])
        /\ (pc["parent"] = "exited" /\ symtab["parent"] = "unmapped") => FileWellFormed

\* the calls so far registered only names shorter than one unit of growth
OnlySmallNames ==
    /\ \A i \in DOMAIN symLog : symLog[i].size < UFTRACE_PYTHON_SYMTAB_SIZE
    /\ \A p \in Procs : EntrySize(cur[p].name) < UFTRACE_PYTHON_SYMTAB_SIZE

\* write_symtab ran to its end in the process
Finalized(p) == pc[p] = "exited" /\ symtab[p] = "unmapped"

\* C3: write_symtab on a table whose header holds count = N writes the header
\* comment block, then the bytes [HDRSZ, offset) of the table verbatim, which
\* are the N lines "<16 hex digits> <kind> <name>\n" with the addresses 1..N
\* in order, T for a python function and t for a C function, then one
\* sentinel line with address N+1, kind ? and name __sym_end.
C3_FileContents ==
    Finalized("parent") =>
        /\ hdr.count = Len(symLog)
        /\ hdr.offset = EndOffset
        /\ FileWellFormed
        /\ SubSeq(symfile, UFTRACE_PYTHON_SYMTAB_HDRSZ + 1, hdr.offset)
              = MemRead(mem, UFTRACE_PYTHON_SYMTAB_HDRSZ, hdr.offset)

\* C3 witness: a file written from a table that grew and holds a python and a
\* C function
C3_Witness ==
    /\ Finalized("parent")
    /\ hdr.count = 2
    /\ symLog[1].is_pyfunc /\ ~symLog[2].is_pyfunc
    /\ shmSize > UFTRACE_PYTHON_SYMTAB_SIZE

\* ------------------------------------------------------------- C4, C5
\* the object whose identity convert_function_addr looks up for an event
Identity(frame, event, arg) == CodeOf(frame, event = "call", arg)
\* the event of the frame is one uftrace_trace_python does not skip
NotSkipped(p, frame) ==
    ~(skip_first_frame[p] /\
      frame = (IF first_frame[p] = NULL THEN frame ELSE first_frame[p]))
EnterCall(addr, ok) == [fn |-> "enter", child |-> addr, parent |-> 0, resolved |-> ok]
ExitCall(ok) == [fn |-> "exit", child |-> 0, parent |-> 0, resolved |-> ok]

\* convert_function_addr finds the identity of the event in the cache
CacheHit(p, frame, event, arg) ==
    /\ event \in {"call", "c_call"}
    /\ NotSkipped(p, frame)
    /\ \E n \in code_tree[p] : n.code = Identity(frame, event, arg)

\* C4: in one process all convert_function_addr calls made with the same
\* identity that return an address return the same address, and a call that
\* finds the identity in the cache leaves the header (count and offset), the
\* bytes of the table and the cache as they are.
C4_SameIdentitySameAddress ==
    /\ [](\A p \in Procs : \A r1, r2 \in resolved[p] :
            r1.code = r2.code => r1.addr = r2.addr)
    /\ [][\A p \in Procs : \A frame \in Frames, event \in EventNames, arg \in CFuncs :
            (CacheHit(p, frame, event, arg) /\ TraceEvent(p, TRUE, frame, event, arg))
            => /\ UNCHANGED <<hdr, mem, code_tree, symLog>>
               /\ \E n \in code_tree[p] :
                    /\ n.code = Identity(frame, event, arg)
                    /\ [code |-> n.code, addr |-> n.addr] \in resolved'[p]
                    /\ hookLog'[p] = Append(hookLog[p], EnterCall(n.addr, cygprof_enter[p]))
         ]_vars

\* the same function entered twice: one entry, one address, two calls of the hook
C4_Witness ==
    /\ hdr.count = 1
    /\ code_tree["parent"] = {[code |-> "code_foo", addr |-> 1]}
    /\ resolved["parent"] = {[code |-> "code_foo", addr |-> 1]}
    /\ hookLog["parent"] = <<EnterCall(1, TRUE), EnterCall(1, TRUE)>>

\* the name convert_function_addr computes for an identity it resolved
NamesOf(addr) == {symLog[i].name : i \in {j \in DOMAIN symLog : symLog[j].addr = addr}}

\* C5: two distinct identities get two entries of the table and two distinct
\* addresses, also when their computed names are equal: the cache compares
\* identities, never names.
C5_DistinctIdentitiesDistinctAddresses ==
    \A p \in Procs : \A r1, r2 \in resolved[p] :
        r1.code # r2.code =>
            /\ r1.addr # r2.addr
            /\ \E i, j \in DOMAIN symLog :
                 /\ i # j
                 /\ symLog[i].addr = r1.addr
                 /\ symLog[j].addr = r2.addr
            /\ hdr.count >= 2

\* code_foo and code_foo2 are both named mymod.foo
C5_Witness ==
    /\ \E r1, r2 \in resolved["parent"] :
         /\ r1.code = "code_foo" /\ r2.code = "code_foo2"
         /\ r1.addr # r2.addr
         /\ NamesOf(r1.addr) = {S_mymod \o <<".">> \o S_foo}
         /\ NamesOf(r2.addr) = NamesOf(r1.addr)
    /\ hdr.count = 2
    /\ pc["parent"] = "idle"

\* ------------------------------------------------------------- C6, C7
\* the frame first_frame holds once the event of this frame was received
RootAfter(p, frame) == IF first_frame[p] = NULL THEN frame ELSE first_frame[p]
\* the process was initialised in a uftrace session
InSession(p) == envShmem /\ symtab[p] = "mapped"
EnterEvents == {"call", "c_call"}
ExitEvents == {"return", "c_return", "c_exception"}
\* convert_function_addr can name the function of the event
Attributable(frame, event, arg) ==
    IF event = "call"
    THEN get_python_funcname(frame, FrameObjs[frame].f_code) # NullStr
    ELSE get_c_funcname(frame, arg) # NullStr

\* C6: with skip_first_frame set, the frame of the first event is kept as the
\* root frame for good; an event of any kind on the root frame calls no hook,
\* changes no cache and allocates nothing, and an event on another frame is
\* processed: an enter event calls the enter hook, at once from the cache or
\* after the allocation it starts.
C6_RootFrameSkipped ==
    [][\A p \in Procs : \A frame \in Frames, event \in EventNames, arg \in CFuncs :
         (skip_first_frame[p] /\ InSession(p) /\ TraceEvent(p, TRUE, frame, event, arg))
         => /\ first_frame'[p] = RootAfter(p, frame)
            /\ first_frame[p] # NULL => first_frame'[p] = first_frame[p]
            /\ frame = RootAfter(p, frame)
               => /\ UNCHANGED <<hookLog, code_tree, hdr, mem, symLog, resolved>>
                  /\ pc'[p] = "idle"
            /\ (frame # RootAfter(p, frame) /\ event \in EnterEvents)
               => \/ /\ Len(hookLog'[p]) = Len(hookLog[p]) + 1
                     /\ hookLog'[p][Len(hookLog'[p])].fn = "enter"
                  \/ /\ pc'[p] = "cas"
                     /\ tr'[p].frame = frame
                     /\ tr'[p].event = event
            /\ (frame # RootAfter(p, frame) /\ event \in ExitEvents)
               => hookLog'[p] = Append(hookLog[p], ExitCall(cygprof_exit[p]))
      ]_vars

\* the first event came on frame_root and called nothing; the call of foo on
\* frame_a was traced
C6_Witness ==
    /\ skip_first_frame["parent"]
    /\ first_frame["parent"] = "frame_root"
    /\ retval["parent"] = "trace_func"
    /\ hookLog["parent"] = <<EnterCall(1, TRUE)>>
    /\ code_tree["parent"] = {[code |-> "code_foo", addr |-> 1]}

\* the entry of the table that was given the address
EntryOf(addr) == symLog[CHOOSE i \in DOMAIN symLog : symLog[i].addr = addr]

\* C7: on frames that are not skipped, every enter event whose function can be
\* named makes exactly one call cygprof_enter(addr, 0), addr being the address
\* the cache holds for the function, every exit event (return, c_return,
\* c_exception) makes exactly one call cygprof_exit(0, 0), in the order of the
\* events, and no step makes any other call; the table has one entry per
\* cached function, under the name computed for it.
C7_OneHookCallPerEvent ==
    /\ [][\A p \in Procs :
            /\ \/ hookLog'[p] = hookLog[p]
               \/ /\ Len(hookLog'[p]) = Len(hookLog[p]) + 1
                  /\ \A i \in DOMAIN hookLog[p] : hookLog'[p][i] = hookLog[p][i]
            /\ \A frame \in Frames, event \in EventNames, arg \in CFuncs :
                 (/\ InSession(p)
                  /\ NotSkipped(p, frame)
                  /\ event \in EnterEvents => Attributable(frame, event, arg)
                  /\ TraceEvent(p, TRUE, frame, event, arg))
                 => /\ event \in ExitEvents
                       => hookLog'[p] = Append(hookLog[p], ExitCall(cygprof_exit[p]))
                    /\ (event \in EnterEvents /\ CacheHit(p, frame, event, arg))
                       => \E n \in code_tree[p] :
                            /\ n.code = Identity(frame, event, arg)
                            /\ hookLog'[p] = Append(hookLog[p],
                                                    EnterCall(n.addr, cygprof_enter[p]))
                    /\ (event \in EnterEvents /\ ~CacheHit(p, frame, event, arg))
                       => /\ hookLog'[p] = hookLog[p]
                          /\ pc'[p] = "cas"
                          /\ tr'[p].code = Identity(frame, event, arg)
                          /\ cur'[p].name = (IF event = "call"
                                             THEN get_python_funcname(frame, tr'[p].code)
                                             ELSE get_c_funcname(frame, tr'[p].code))
                    /\ event \notin (EnterEvents \cup ExitEvents)
                       => hookLog'[p] = hookLog[p]
            /\ (pc[p] \in {"cas", "grow", "write"} /\ cur[p].caller = "trace")
               => \/ /\ pc'[p] \in {"cas", "grow", "write"}
                     /\ hookLog'[p] = hookLog[p]
                     /\ tr'[p] = tr[p]
                  \/ /\ pc'[p] \in {"idle", "crashed"}
                     /\ \E n \in code_tree'[p] :
                          /\ n.code = tr[p].code
                          /\ n \notin code_tree[p]
                          /\ EntryOf(n.addr).name = cur[p].name
                          /\ hookLog'[p] = Append(hookLog[p],
                                                  EnterCall(n.addr, cygprof_enter[p]))
         ]_vars
    /\ [](\A p \in Procs :
            (pc[p] = "idle" /\ InSession(p)) => hdr.count = Cardinality(code_tree[p]))

\* enter(mymod.foo), exit, enter(builtins.len), exit: two entries and two pairs
C7_Witness ==
    /\ hookLog["parent"] = <<EnterCall(1, TRUE), ExitCall(TRUE),
                             EnterCall(2, TRUE), ExitCall(TRUE)>>
    /\ code_tree["parent"] = {[code |-> "code_foo", addr |-> 1],
                              [code |-> "cfunc_len", addr |-> 2]}
    /\ hdr.count = 2
    /\ EntryOf(1).name = S_mymod \o <<".">> \o S_foo
    /\ EntryOf(2).name = S_builtins \o <<".">> \o S_len

\* ------------------------------------------------------------- C8, C9, C10
\* C8: without UFTRACE_SHMEM the process never has a shared memory object nor
\* resolved hooks, and no later step (an event, or write_symtab run by the
\* destructor) reads or writes the table, calls a hook, writes the symbol file
\* or unlinks an object.
C8_NoOpWithoutEnv ==
    ~envShmem =>
        /\ ~shmLinked /\ shmSize = 0
        /\ symfile = NoFile
        /\ \A p \in Procs :
             /\ ~cygprof_enter[p] /\ ~cygprof_exit[p]
             /\ symtab[p] = NULL
             /\ hookLog[p] = <<>>
             /\ fault[p] = "none"

C10_UnnamedEnterSkipped ==
    [][\A p \in Procs : \A frame \in Frames, event \in EnterEvents, arg \in CFuncs :
         (/\ InSession(p) /\ cygprof_enter[p]
          /\ NotSkipped(p, frame)
          /\ ~Attributable(frame, event, arg)
          /\ TraceEvent(p, TRUE, frame, event, arg))
         => /\ hookLog'[p] = hookLog[p]
            /\ pc'[p] = "idle"
      ]_vars

\* ------------------------------------------------------------- C11
\* C11: a hook is only ever called through a pointer find_libmcount_funcs
\* resolved: when libmcount is not mapped or lacks one of the two symbols, no
\* event makes a call through the pointer that stayed NULL (stated for a
\* process in a session).
C11_HooksResolvedWhenCalled ==
    envShmem =>
        \A p \in Procs : \A i \in DOMAIN hookLog[p] : hookLog[p][i].resolved

\* ------------------------------------------------------------- C12
\* C12: every run of write_symtab that ends has unmapped the table, closed the
\* descriptor and unlinked the shared memory object, whether or not the symbol
\* file could be opened or written (stated for a process in a session).
C12_FinalizeReleases ==
    \A p \in Procs :
        (envShmem /\ pc[p] = "exited")
        => /\ symtab[p] = "unmapped"
           /\ uftrace_shmem_fd[p] = "closed"
           /\ ~shmLinked

\* ------------------------------------------------------------- C13
InFinalize(p) == pc[p] \in {"fin_len", "fin_copy", "fin_end"}

\* C13: write_symtab always terminates: when a write of the entry bytes fails
\* or writes nothing, it goes on to the end without writing again.
C13_FinalizeTerminates ==
    \A p \in Procs : InFinalize(p) ~> pc[p] \in {"exited", "crashed"}

\* ------------------------------------------------------------- C14
\* the step is the write of get_new_sym_addr (lines 206-209) by process p
WriteStep(p) == pc[p] = "write" /\ pc'[p] # "write"

\* C14: for any interleaving of get_new_sym_addr calls of processes that share
\* the table, every byte a call changes lies in the range
\* [old_hdr.offset, old_hdr.offset + entry_size) its header swap reserved, so
\* no call changes a byte of another call's entry, whichever of the two is
\* written first.
C14_WritesInsideReservedRange ==
    [][\A p \in Procs :
         WriteStep(p)
         => \A a \in DOMAIN mem :
              mem'[a] # mem[a]
              => /\ a >= cur[p].old_hdr.offset
                 /\ a < cur[p].old_hdr.offset + EntrySize(cur[p].name)
      ]_vars

\* ------------------------------------------------------------- C15
RECURSIVE SumSizes(_)
\* the sum of the entry sizes of the first k successful swaps
SumSizes(k) == IF k = 0 THEN 0 ELSE SumSizes(k - 1) + symLog[k].size

\* C15: with concurrent callers the count and the offset of the header change
\* only together, by one successful compare-and-swap of one caller; the offset
\* never decreases and is the header size plus the sizes of the count entries
\* allocated; the entry with address k has the range that starts at the header
\* size plus the sizes of entries 1..k-1, so the ranges of distinct entries are
\* disjoint and in the order of the addresses.
C15_HeaderAndRanges ==
    /\ [](shmLinked =>
            /\ hdr.count = Len(symLog)
            /\ hdr.offset = UFTRACE_PYTHON_SYMTAB_HDRSZ + SumSizes(Len(symLog))
            /\ \A k \in DOMAIN symLog :
                 /\ symLog[k].addr = k
                 /\ symLog[k].size = Len(symLog[k].name) + EntryOverhead
                 /\ symLog[k].off = UFTRACE_PYTHON_SYMTAB_HDRSZ + SumSizes(k - 1)
            /\ \A i, j \in DOMAIN symLog :
                 i < j => symLog[i].off + symLog[i].size <= symLog[j].off)
    /\ [][(shmLinked /\ hdr' # hdr)
          => /\ hdr'.count = hdr.count + 1
             /\ hdr'.offset > hdr.offset
             /\ \E p \in Procs :
                  /\ pc[p] = "cas"
                  /\ cur[p].old_hdr = hdr
                  /\ cur'[p].new_hdr = hdr'
                  /\ hdr'.offset = hdr.offset + Len(cur[p].name) + EntryOverhead
                  /\ \A q \in Procs \ {p} : pc'[q] = pc[q] /\ cur'[q] = cur[q]
         ]_vars

\* the child, the parent and the child again have swapped the header
C15_Witness ==
    /\ Len(symLog) = 3
    /\ symLog[1].proc = "child" /\ symLog[2].proc = "parent" /\ symLog[3].proc = "child"
    /\ hdr = Hdr(3, UFTRACE_PYTHON_SYMTAB_HDRSZ + 3 * (1 + EntryOverhead))
    /\ pc["parent"] = "write"
    /\ pc["child"] = "write"

\* ------------------------------------------------------------- C16
\* the entries whose get_new_sym_addr call has written its bytes: those no
\* process holds between its header swap and its write
CompletedEntries ==
    {k \in DOMAIN symLog :
        ~\E q \in Procs : /\ pc[q] \in {"grow", "write"}
                          /\ cur[q].new_hdr.count = symLog[k].addr}

\* C16: the count of the header is the number of entries whose bytes are fully
\* written, also while calls of several processes are in progress, so a
\* process that reads the header in write_symtab never sees a count or an
\* offset that covers an entry not yet written.
C16_CountIsCompletedEntries ==
    (shmLinked /\ \E p \in Procs : InFinalize(p))
    => /\ hdr.count = Cardinality(CompletedEntries)
       /\ \A k \in DOMAIN symLog :
            symLog[k].off + symLog[k].size <= hdr.offset => k \in CompletedEntries

\* ------------------------------------------------------------- C17
\* C17: for any interleaving of get_new_sym_addr calls of processes that share
\* the shared memory object and each keep their own uftrace_symtab_size, the
\* size of the object never decreases: the growth step of one process only
\* extends it, also when another process has grown it further (stated for
\* entries smaller than one unit of growth).
C17_SizeNeverDecreases ==
    [][(shmLinked /\ OnlySmallNames) => shmSize' >= shmSize]_vars

\* ------------------------------------------------------------- C18
\* C18: every access of a process to the table lies inside the capacity the
\* process has mapped: after the growth step of get_new_sym_addr the reserved
\* range [old_hdr.offset, old_hdr.offset + entry_size) is below
\* uftrace_symtab_size before a byte is written, and write_symtab copies only
\* bytes below the capacity of the process that runs it, for any interleaving
\* with processes that advanced the offset or grew the object (stated here
\* for entries smaller than one unit of growth; the claim is for any size).
C18_AccessInsideCapacity ==
    OnlySmallNames =>
        \A p \in Procs :
            /\ pc[p] = "write"
               => cur[p].old_hdr.offset + EntrySize(cur[p].name)
                    <= uftrace_symtab_size[p]
            /\ pc[p] = "fin_copy"
               => fin[p].buf + fin[p].len <= uftrace_symtab_size[p]

\* ------------------------------------------------------------- C19
\* the argument of the c_call event is an object get_c_funcname cannot name
NoName(event, arg) == event = "c_call" /\ ~CFuncObjs[arg].is_cfunction

\* C19: when convert_function_addr misses the cache and the name function
\* returns no name, it returns 0 (the address the enter hook is then called
\* with) and leaves the header, the bytes of the table and the cache as they
\* are; a later call for the same object misses the cache again.
C19_NoNameNoChange ==
    [][\A p \in Procs : \A frame \in Frames, event \in EnterEvents, arg \in CFuncs :
         (/\ NotSkipped(p, frame)
          /\ NoName(event, arg)
          /\ TraceEvent(p, TRUE, frame, event, arg))
         => /\ ~\E n \in code_tree[p] : n.code = arg
            /\ UNCHANGED <<hdr, mem, code_tree, symLog, resolved>>
            /\ hookLog'[p] = Append(hookLog[p], EnterCall(0, cygprof_enter[p]))
            /\ pc'[p] \in {"idle", "crashed"}
      ]_vars

\* the same unnameable object came twice, and was a miss twice
C19_Witness ==
    /\ hookLog["parent"] = <<EnterCall(0, TRUE), EnterCall(0, TRUE)>>
    /\ code_tree["parent"] = {}
    /\ hdr = Hdr(0, UFTRACE_PYTHON_SYMTAB_HDRSZ)
    /\ symLog = <<>>
    /\ pc["parent"] = "idle"

\* ------------------------------------------------------------- C20
\* the process is inside get_new_sym_addr
InAlloc(p) == pc[p] \in {"cas", "grow", "write"}

\* a call that is in its compare-and-swap loop eventually leaves the loop
SwapEventuallyCompletes == \A p \in Procs : pc[p] = "cas" ~> pc[p] # "cas"

\* C20: the header update never blocks: whenever calls are retrying, a
\* compare-and-swap succeeds, and under fair scheduling every call of
\* get_new_sym_addr that one of finitely many concurrent callers started
\* eventually completes its header swap and returns.
C20_EveryCallReturns ==
    /\ [][\A p \in Procs :
             (pc[p] = "cas" /\ pc'[p] = "cas" /\ cur'[p] # cur[p])
             => /\ cur[p].old_hdr.count < hdr.count
                /\ cur'[p].old_hdr = hdr]_vars
    /\ \A p \in Procs : pc[p] = "cas" ~> pc[p] # "cas"
    /\ \A p \in Procs : InAlloc(p) ~> pc[p] = "idle"
====
